---- MODULE Spec2Model ----
(***************************************************************************)
(* Model of the lfest exchange: Exchange (src/src/exchange.rs) and Trade   *)
(* (src/src/market_update/trade_update.rs).                                *)
(*                                                                         *)
(* The Exchange is a single-threaded state machine: every public method    *)
(* runs to completion, so each public method is one action.  The methods   *)
(* are operators from an exchange record (the fields of `struct Exchange`) *)
(* to the exchange record after the call, plus the returned value.         *)
(*                                                                         *)
(* Collaborators whose code is not part of src/ (Balances, Position,       *)
(* OrderMargin, ActiveLimitOrders, RiskEngine, OrderRateLimiter, filters,  *)
(* MarketState, Config) follow sections 3, 4 and 6 of the specification.   *)
(*                                                                         *)
(* Amounts are fixed-point numbers with D = 4 decimals held as integers    *)
(* (minor units); quantities of the base currency are whole units.         *)
(***************************************************************************)
EXTENDS Integers, Sequences, FiniteSets, TLC

\* ------------------------------------------------------------------------
\* Fixed-point arithmetic (spec 3, "Currency amounts")
\* ------------------------------------------------------------------------

\* 10^D, one unit in minor units.
Scale == 10000

\* QuoteCurrency::new(n, 0)
Q(n) == n * Scale

\* Product of two fixed-point numbers (amount * rate), truncated:
\* (a * b) \div Scale, computed without the wide intermediate product.
mul(a, b) == (a \div Scale) * b + ((a % Scale) * b) \div Scale

\* PairedCurrency::convert_from(qty, price): the quote value of qty at price.
convert_from(qty, price) == qty * price

\* Body applied to a value computed once (a `let` binding of the source).
With(value, Body(_)) == Body(value)

min(a, b) == IF a <= b THEN a ELSE b

max(a, b) == IF a >= b THEN a ELSE b

inverted(side) == IF side = "Buy" THEN "Sell" ELSE "Buy"

\* ------------------------------------------------------------------------
\* Config (spec 6): the immutable configuration given to Exchange::new
\* ------------------------------------------------------------------------

fee_maker == 2

fee_taker == 6

init_margin_req == 5000

maintenance_margin_req == 2500

starting_wallet_balance == Q(100)

max_num_open_orders == 2

orders_per_second == 3

\* QuantityFilter{min_qty, max_qty, step_size}
min_qty == 1

max_qty == 4

step_size == 1

\* PriceFilter{min_price, max_price, tick_size, multiplier_up, multiplier_down}
min_price == Q(1)

max_price == Q(1000)

tick_size == Q(1)

multiplier_up == 5 * Scale

multiplier_down == Scale \div 5

\* One second, in the unit of the timestamps of the model.
OneSecond == 1

\* ------------------------------------------------------------------------
\* Bounds of the model
\* ------------------------------------------------------------------------

\* Calls made to the exchange in one run: a first quotation, as many order
\* calls as the rate limiter admits in one second, and a market update
\* after them.
MaxCalls == orders_per_second + 2

\* Timestamps of market updates are 0..MaxTs and never decrease.
MaxTs == 2

\* The (bid, ask) quotations a Bba update may carry: the market, a fall that
\* breaches the maintenance margin of a Long, a rise that breaches that of
\* a Short.
Quotes == { <<Q(100), Q(101)>>, <<Q(60), Q(61)>>, <<Q(140), Q(141)>> }

\* Side and limit price of the limit orders submitted: at the market of
\* <<Q(100), Q(101)>> two resting price levels a side and one marketable.
LimitOrders ==
    { <<"Buy", Q(99)>>, <<"Buy", Q(100)>>, <<"Buy", Q(101)>>,
      <<"Sell", Q(100)>>, <<"Sell", Q(101)>>, <<"Sell", Q(102)>> }

\* Side and limit price of the orders an amend submits.
AmendOrders ==
    { <<"Buy", Q(100)>>, <<"Buy", Q(101)>>,
      <<"Sell", Q(100)>>, <<"Sell", Q(101)>> }

\* Side and price of the trades: sells and buys that cross one or both
\* resting levels (and are at the limit price of the other), and a trade
\* of each side priced beyond the orders of its own side.
Trades ==
    { <<"Sell", Q(98)>>, <<"Sell", Q(99)>>, <<"Buy", Q(102)>>,
      <<"Buy", Q(103)>>, <<"Buy", Q(98)>>, <<"Sell", Q(103)>> }

\* Order and trade quantities.
Quantities == {1, 2}

Sides == {"Buy", "Sell"}

\* ------------------------------------------------------------------------
\* Balances (spec 3 and 4.6)
\* ------------------------------------------------------------------------

\* Balances::new(starting_wallet_balance)
NewBalances(wallet) ==
    [available |-> wallet, position_margin |-> 0, order_margin |-> 0,
     fees_paid |-> 0, realized_pnl |-> 0]

try_reserve_order_margin(b, amount) ==
    IF amount > b.available
    THEN [ok |-> FALSE, balances |-> b]
    ELSE [ok |-> TRUE,
          balances |-> [b EXCEPT !.available = @ - amount,
                                 !.order_margin = @ + amount]]

free_order_margin(b, amount) ==
    [b EXCEPT !.available = @ + amount, !.order_margin = @ - amount]

try_reserve_position_margin(b, amount) ==
    IF amount > b.available
    THEN [ok |-> FALSE, balances |-> b]
    ELSE [ok |-> TRUE,
          balances |-> [b EXCEPT !.available = @ - amount,
                                 !.position_margin = @ + amount]]

free_position_margin(b, amount) ==
    [b EXCEPT !.available = @ + amount, !.position_margin = @ - amount]

\* Deducts the fee from available and records it.
account_for_fee(b, fee) ==
    [b EXCEPT !.available = @ - fee, !.fees_paid = @ + fee]

\* Realizes a profit or loss into available.
apply_realized_pnl(b, delta) ==
    [b EXCEPT !.available = @ + delta, !.realized_pnl = @ + delta]

\* ------------------------------------------------------------------------
\* Position (spec 3 and 4.7)
\* ------------------------------------------------------------------------

Neutral == [kind |-> "Neutral", quantity |-> 0, entry_price |-> 0]

NoPanic == "none"

\* Opens a position of `qty` at `price` on the side of the fill, or adds to
\* one on that side (entry price: the quantity-weighted average), reserving
\* qty * price * imr position margin.  A reservation that fails is fatal.
PositionIncrease(pos, b, qty, price, side, imr) ==
    LET margin == mul(convert_from(qty, price), imr)
        kind   == IF side = "Buy" THEN "Long" ELSE "Short"
        total  == pos.quantity + qty
        entry  == (convert_from(pos.quantity, pos.entry_price)
                     + convert_from(qty, price)) \div total
    IN  With(try_reserve_position_margin(b, margin),
             LAMBDA r :
               [position |-> [kind |-> kind, quantity |-> total,
                              entry_price |-> entry],
                balances |-> r.balances,
                panic    |-> IF r.ok THEN NoPanic
                             ELSE "Can reserve position margin"])

\* Reduces a position by qty <= pos.quantity: releases the proportional
\* position margin and realizes qty * (price - entry) * sign into available.
PositionDecrease(pos, b, qty, price) ==
    LET release == (b.position_margin * qty) \div pos.quantity
        pnl     == IF pos.kind = "Long"
                   THEN convert_from(qty, price) - convert_from(qty, pos.entry_price)
                   ELSE convert_from(qty, pos.entry_price) - convert_from(qty, price)
        b1      == apply_realized_pnl(free_position_margin(b, release), pnl)
    IN  [position |-> IF qty = pos.quantity THEN Neutral
                      ELSE [pos EXCEPT !.quantity = @ - qty],
         balances |-> b1,
         panic    |-> NoPanic]

\* Position::change(filled_qty, fill_price, side, &mut balances, imr)
change(pos, b, filled_qty, fill_price, side, imr) ==
    LET same == \/ pos.kind = "Neutral"
                \/ pos.kind = "Long" /\ side = "Buy"
                \/ pos.kind = "Short" /\ side = "Sell"
    IN  IF same
        THEN PositionIncrease(pos, b, filled_qty, fill_price, side, imr)
        ELSE IF filled_qty <= pos.quantity
        THEN PositionDecrease(pos, b, filled_qty, fill_price)
        ELSE With(PositionDecrease(pos, b, pos.quantity, fill_price),
                  LAMBDA closed :
                    PositionIncrease(closed.position, closed.balances,
                                     filled_qty - pos.quantity, fill_price,
                                     side, imr))

\* ------------------------------------------------------------------------
\* ActiveLimitOrders (spec 3 and 4.4): the set of resting (Pending) orders.
\* An order is [id, side, limit_price, total_quantity, remaining_quantity,
\* timestamp] (ExchangeOrderMeta: id and submission timestamp).
\* ------------------------------------------------------------------------

OfSide(orders, side) == { o \in orders : o.side = side }

\* o is ahead of p in the book: better price, or same price and earlier id.
Before(o, p) ==
    \/ o.side = "Buy"  /\ o.limit_price > p.limit_price
    \/ o.side = "Sell" /\ o.limit_price < p.limit_price
    \/ o.limit_price = p.limit_price /\ o.id < p.id

\* The best order of a non-empty side: no order of the side is ahead of it.
Best(orders, side) ==
    CHOOSE o \in OfSide(orders, side) :
        \A p \in OfSide(orders, side) : ~Before(p, o)

num_active(orders) == Cardinality(orders)

\* peek_best_bid / peek_best_ask: <<order>>, or << >> for None.
peek_best_bid(orders) ==
    IF OfSide(orders, "Buy") = {} THEN << >> ELSE << Best(orders, "Buy") >>

peek_best_ask(orders) ==
    IF OfSide(orders, "Sell") = {} THEN << >> ELSE << Best(orders, "Sell") >>

\* get_by_id(oid, side): <<order>>, or << >> for None.
get_by_id(orders, oid, side) ==
    LET found == { o \in OfSide(orders, side) : o.id = oid }
    IN  IF found = {} THEN << >> ELSE << CHOOSE o \in found : TRUE >>

\* ------------------------------------------------------------------------
\* OrderMargin (spec 4.5)
\* ------------------------------------------------------------------------

\* Notional of the quantity of one side that exceeds `offset`, the offset
\* being applied to the most aggressive orders first (steps 1 to 3).
RECURSIVE ExcessNotional(_, _, _)
ExcessNotional(orders, side, offset) ==
    IF OfSide(orders, side) = {} THEN 0
    ELSE With(Best(orders, side),
              LAMBDA o :
                LET used == min(o.remaining_quantity, offset)
                IN  convert_from(o.remaining_quantity - used, o.limit_price)
                      + ExcessNotional(orders \ {o}, side, offset - used))

\* OrderMargin::order_margin(init_margin_req, position): steps 4 and 5.
order_margin(orders, imr, pos) ==
    LET short == IF pos.kind = "Short" THEN pos.quantity ELSE 0
        long  == IF pos.kind = "Long" THEN pos.quantity ELSE 0
    IN  max(mul(ExcessNotional(orders, "Buy", short), imr),
            mul(ExcessNotional(orders, "Sell", long), imr))

\* Reserves or frees the difference between the requirement and the
\* order margin reserved in the balances.
Rebalance(b, requirement) ==
    IF requirement > b.order_margin
    THEN try_reserve_order_margin(b, requirement - b.order_margin)
    ELSE [ok |-> TRUE,
          balances |-> free_order_margin(b, b.order_margin - requirement)]

\* OrderMargin::try_insert(order, &mut balances, &position, imr)
try_insert(orders, order, b, pos, imr) ==
    IF num_active(orders) >= max_num_open_orders
    THEN [err |-> "MaxActiveOrders", orders |-> orders, balances |-> b]
    ELSE LET grown == orders \cup {order}
         IN  With(Rebalance(b, order_margin(grown, imr, pos)),
                  LAMBDA r :
                    IF r.ok
                    THEN [err |-> "Ok", orders |-> grown,
                          balances |-> r.balances]
                    ELSE [err |-> "NotEnoughAvailableBalance",
                          orders |-> orders, balances |-> b])

\* OrderMargin::remove(cancel_by, &mut balances, &position, imr)
remove(orders, cancel_by, b, pos, imr) ==
    LET found == { o \in orders : o.id = cancel_by.id }
    IN  IF cancel_by.by # "OrderId" \/ found = {}
        THEN [err |-> "OrderIdNotFound", orders |-> orders, balances |-> b,
              removed |-> << >>]
        ELSE LET rest == orders \ found
             IN  With(Rebalance(b, order_margin(rest, imr, pos)),
                      LAMBDA r :
                        IF r.ok
                        THEN [err |-> "Ok", orders |-> rest,
                              balances |-> r.balances,
                              removed |-> << CHOOSE o \in found : TRUE >>]
                        ELSE [err |-> "NotEnoughAvailableBalance",
                              orders |-> orders, balances |-> b,
                              removed |-> << >>])

\* OrderMargin::fill_order(order, &mut balances, &position, imr): stores the
\* partially filled order in place of the resting one and rebalances.
fill_order(orders, order, b, pos, imr) ==
    LET updated == { o \in orders : o.id # order.id } \cup {order}
        r       == Rebalance(b, order_margin(updated, imr, pos))
    IN  [orders |-> updated, balances |-> r.balances]

\* ------------------------------------------------------------------------
\* Filters (spec 4.1)
\* ------------------------------------------------------------------------

validate_order_quantity(qty) ==
    IF qty < min_qty THEN "QtyTooLow"
    ELSE IF qty > max_qty THEN "QtyTooHigh"
    ELSE IF qty % step_size # 0 THEN "QtyNotMultipleOfStep"
    ELSE "Ok"

validate_limit_price(price, mid) ==
    IF price < min_price THEN "PriceTooLow"
    ELSE IF price > max_price THEN "PriceTooHigh"
    ELSE IF price % tick_size # 0 THEN "PriceNotMultipleOfTick"
    ELSE IF price > mul(mid, multiplier_up) \/ price < mul(mid, multiplier_down)
    THEN "PriceOutOfBand"
    ELSE "Ok"

\* ------------------------------------------------------------------------
\* MarketState (spec 4.2): [bid, ask, last_trade_price, current_timestamp_ns]
\* ------------------------------------------------------------------------

DefaultMarketState ==
    [bid |-> 0, ask |-> 0, last_trade_price |-> 0, current_timestamp_ns |-> 0]

mid_price(ms) == (ms.bid + ms.ask) \div 2

\* A market update is a Bba [kind, bid, ask, timestamp_exchange_ns] or a
\* Trade [kind, price, quantity, side, timestamp_exchange_ns].
Bba(bid, ask, ts) ==
    [kind |-> "Bba", bid |-> bid, ask |-> ask, timestamp_exchange_ns |-> ts]

\* MarketState::update_state(u, price_filter): applies u.update_market_state
\* (a Bba sets the quotes, a Trade the last trade price) and records the
\* timestamp of the update as the current one.
MarketStateUpdate(ms, u) ==
    LET applied == IF u.kind = "Bba"
                   THEN [ms EXCEPT !.bid = u.bid, !.ask = u.ask]
                   ELSE [ms EXCEPT !.last_trade_price = u.price]
    IN  [applied EXCEPT !.current_timestamp_ns = u.timestamp_exchange_ns]

\* ------------------------------------------------------------------------
\* OrderRateLimiter (spec 4.3): the most recent N admitted timestamps,
\* oldest first; admits iff fewer than N are stored or the oldest is older
\* than one second.
\* ------------------------------------------------------------------------

NewOrderRateLimiter == << >>

aquire(limiter, now) ==
    IF Len(limiter) < orders_per_second
    THEN [ok |-> TRUE, limiter |-> Append(limiter, now)]
    ELSE IF now - Head(limiter) > OneSecond
    THEN [ok |-> TRUE, limiter |-> Append(Tail(limiter), now)]
    ELSE [ok |-> FALSE, limiter |-> limiter]

\* ------------------------------------------------------------------------
\* IsolatedMarginRiskEngine (spec 4.8)
\* ------------------------------------------------------------------------

\* The post-trade position needs margin for the quantity that opens or
\* extends a position; the quantity that closes releases its margin.
check_market_order(pos, order, fill_price, b) ==
    LET same     == \/ pos.kind = "Neutral"
                    \/ pos.kind = "Long" /\ order.side = "Buy"
                    \/ pos.kind = "Short" /\ order.side = "Sell"
        closing  == IF same THEN 0 ELSE min(order.quantity, pos.quantity)
        opening  == order.quantity - closing
        release  == IF closing = 0 THEN 0
                    ELSE (b.position_margin * closing) \div pos.quantity
        required == mul(convert_from(opening, fill_price), init_margin_req)
    IN  IF required > b.available + release
        THEN "NotEnoughAvailableBalance" ELSE "Ok"

\* The order margin after adding the order may grow by at most `available`.
check_limit_order(pos, order, available, orders) ==
    LET now  == order_margin(orders, init_margin_req, pos)
        then == order_margin(orders \cup {order}, init_margin_req, pos)
    IN  IF then - now > available
        THEN "NotEnoughAvailableBalance" ELSE "Ok"

\* Marked at the quote the position would be closed at (bid for a Long, ask
\* for a Short): Liquidation if position margin + unrealized pnl is below
\* maintenance_margin_req * notional.
check_maintenance_margin(ms, pos) ==
    IF pos.kind = "Neutral" THEN "Ok"
    ELSE LET mark     == IF pos.kind = "Long" THEN ms.bid ELSE ms.ask
             margin   == mul(convert_from(pos.quantity, pos.entry_price),
                             init_margin_req)
             upnl     == IF pos.kind = "Long"
                         THEN convert_from(pos.quantity, mark - pos.entry_price)
                         ELSE convert_from(pos.quantity, pos.entry_price - mark)
             notional == convert_from(pos.quantity, mark)
         IN  IF margin + upnl < mul(notional, maintenance_margin_req)
             THEN "Liquidation" ELSE "Ok"

\* ------------------------------------------------------------------------
\* Trade (src/src/market_update/trade_update.rs)
\* ------------------------------------------------------------------------

Trade(price, quantity, side, ts) ==
    [kind |-> "Trade", price |-> price, quantity |-> quantity, side |-> side,
     timestamp_exchange_ns |-> ts]

\* MarketUpdate::CAN_FILL_LIMIT_ORDERS
CAN_FILL_LIMIT_ORDERS(u) == u.kind = "Trade"

\* Mutant of fills_order: a trade at the limit price fills the order.
fills_order_at_limit(trade, order) ==
    IF order.side = "Buy"
    THEN trade.price <= order.limit_price /\ trade.side = "Sell"
    ELSE trade.price >= order.limit_price /\ trade.side = "Buy"

\* Trade::fills_order
fills_order(trade, order) ==
    IF order.side = "Buy"
    THEN trade.price < order.limit_price /\ trade.side = "Sell"
    ELSE trade.price > order.limit_price /\ trade.side = "Buy"

\* Mutant of limit_order_filled: the quantity of the trade is not reduced.
limit_order_filled_keeps_quantity(trade, order) ==
    IF (IF order.side = "Buy"
        THEN trade.price < order.limit_price /\ trade.side = "Sell"
        ELSE trade.price > order.limit_price /\ trade.side = "Buy")
    THEN [some |-> TRUE,
          filled_qty |-> min(trade.quantity, order.remaining_quantity),
          exhausted |-> trade.quantity <= 0, trade |-> trade]
    ELSE [some |-> FALSE, filled_qty |-> 0, exhausted |-> FALSE,
          trade |-> trade]

\* Trade::limit_order_filled: Some((filled_qty, exhausted)) or None, and the
\* trade after the call (the method takes &mut self).
limit_order_filled(trade, order) ==
    IF fills_order(trade, order)
    THEN LET filled_qty == min(trade.quantity, order.remaining_quantity)
             after      == [trade EXCEPT !.quantity = @ - filled_qty]
         IN  [some |-> TRUE, filled_qty |-> filled_qty,
              exhausted |-> after.quantity <= 0, trade |-> after]
    ELSE [some |-> FALSE, filled_qty |-> 0, exhausted |-> FALSE,
          trade |-> trade]

\* Trade::can_fill_bids
can_fill_bids(trade) == trade.side = "Sell"

\* Trade::can_fill_asks
can_fill_asks(trade) == trade.side = "Buy"

\* ------------------------------------------------------------------------
\* LimitOrder (spec 3)
\* ------------------------------------------------------------------------

\* LimitOrder::new(side, limit_price, quantity)
NewLimitOrder(side, limit_price, quantity) ==
    [side |-> side, limit_price |-> limit_price, total_quantity |-> quantity,
     remaining_quantity |-> quantity]

\* LimitOrder::into_pending(ExchangeOrderMeta::new(id, ts))
into_pending(order, id, ts) ==
    [id |-> id, side |-> order.side, limit_price |-> order.limit_price,
     total_quantity |-> order.total_quantity,
     remaining_quantity |-> order.remaining_quantity, timestamp |-> ts]

\* LimitOrder::fill(filled_qty, fee, ts): the fill event, FullyFilled if the
\* fill takes all that remains, else PartiallyFilled with the order after
\* the fill.
fill(order, filled_qty, fee, ts) ==
    [kind |-> IF filled_qty = order.remaining_quantity
              THEN "FullyFilled" ELSE "PartiallyFilled",
     filled_quantity |-> filled_qty,
     fee |-> fee,
     order_after_fill |-> [order EXCEPT !.remaining_quantity = @ - filled_qty]]

\* ------------------------------------------------------------------------
\* Exchange (src/src/exchange.rs).  Debug assertions are those of a release
\* build (elided); assert! and expect abort the call (panic).
\* ------------------------------------------------------------------------

\* Exchange::new(config)
NewExchange ==
    [market_state |-> DefaultMarketState,
     next_order_id |-> 0,
     balances |-> NewBalances(starting_wallet_balance),
     position |-> Neutral,
     order_margin |-> {},
     limit_order_updates |-> << >>,
     order_rate_limiter |-> NewOrderRateLimiter]

\* Exchange::active_limit_orders
active_limit_orders(ex) == ex.order_margin

\* What a call returns: the exchange after it, Ok or the error, the value
\* carried (<<v>>, or << >>), and the panic that aborted it, if any.
Result(ex, err, value, panic) ==
    [ex |-> ex, err |-> err, value |-> value, panic |-> panic]

\* CancelBy::OrderId(id)
OrderId(id) == [by |-> "OrderId", id |-> id]

\* MarketOrder::new(side, quantity)
NewMarketOrder(side, quantity) == [side |-> side, quantity |-> quantity]

\* Mutant of next_order_id: the id is handed out and not incremented.
next_order_id_reused(ex) == [oid |-> ex.next_order_id, ex |-> ex]

\* Exchange::next_order_id
next_order_id(ex) ==
    [oid |-> ex.next_order_id, ex |-> [ex EXCEPT !.next_order_id = @ + 1]]

\* Mutant of settle_filled_market_order: the taker fee is taken from the
\* available balance and not recorded as a fee paid.
settle_filled_market_order_fee_unrecorded(ex, order) ==
    LET fee == mul(convert_from(order.quantity, order.avg_fill_price),
                   fee_taker)
    IN  With(change(ex.position, ex.balances, order.quantity,
                    order.avg_fill_price, order.side, init_margin_req),
             LAMBDA c :
               [ex |-> [ex EXCEPT !.position = c.position,
                                  !.balances =
                                      IF c.panic # NoPanic THEN c.balances
                                      ELSE [c.balances EXCEPT
                                               !.available = @ - fee]],
                panic |-> c.panic])

\* Exchange::settle_filled_market_order
settle_filled_market_order(ex, order) ==
    LET filled_qty == order.quantity
        fill_price == order.avg_fill_price
        notional   == convert_from(filled_qty, fill_price)
        fee        == mul(notional, fee_taker)
    IN  With(change(ex.position, ex.balances, filled_qty, fill_price,
                    order.side, init_margin_req),
             LAMBDA c :
               IF c.panic # NoPanic
               THEN [ex |-> [ex EXCEPT !.position = c.position,
                                       !.balances = c.balances],
                     panic |-> c.panic]
               ELSE [ex |-> [ex EXCEPT !.position = c.position,
                                       !.balances =
                                           account_for_fee(c.balances, fee)],
                     panic |-> NoPanic])

\* Mutant of submit_market_order_pending: the fill is settled before the
\* risk check is consulted.
submit_market_order_pending_settles_first(n, order) ==
    LET ms         == n.ex.market_state
        fill_price == IF order.side = "Buy" THEN ms.ask ELSE ms.bid
        filled     == [id |-> n.oid, side |-> order.side,
                       quantity |-> order.quantity,
                       timestamp |-> ms.current_timestamp_ns,
                       avg_fill_price |-> fill_price,
                       fill_timestamp |-> ms.current_timestamp_ns]
    IN  With(settle_filled_market_order(n.ex, filled),
             LAMBDA s :
               With(check_market_order(n.ex.position, order, fill_price,
                                       n.ex.balances),
                    LAMBDA risk :
                      IF risk # "Ok" THEN Result(s.ex, risk, << >>, NoPanic)
                      ELSE Result(s.ex, "Ok", << filled >>, s.panic)))

\* Mutant of submit_market_order_pending: a Buy is filled at the bid and a
\* Sell at the ask.
submit_market_order_pending_fills_at_near_quote(n, order) ==
    LET ms         == n.ex.market_state
        fill_price == IF order.side = "Buy" THEN ms.bid ELSE ms.ask
        filled     == [id |-> n.oid, side |-> order.side,
                       quantity |-> order.quantity,
                       timestamp |-> ms.current_timestamp_ns,
                       avg_fill_price |-> fill_price,
                       fill_timestamp |-> ms.current_timestamp_ns]
    IN  With(check_market_order(n.ex.position, order, fill_price,
                                n.ex.balances),
             LAMBDA risk :
               IF risk # "Ok" THEN Result(n.ex, risk, << >>, NoPanic)
               ELSE With(settle_filled_market_order(n.ex, filled),
                         LAMBDA s : Result(s.ex, "Ok", << filled >>, s.panic)))

\* submit_market_order once the order has its meta (id and timestamp): the
\* fill price, the risk check, the fill and its settlement.
submit_market_order_pending(n, order) ==
    LET ms         == n.ex.market_state
        fill_price == IF order.side = "Buy" THEN ms.ask ELSE ms.bid
        filled     == [id |-> n.oid, side |-> order.side,
                       quantity |-> order.quantity,
                       timestamp |-> ms.current_timestamp_ns,
                       avg_fill_price |-> fill_price,
                       fill_timestamp |-> ms.current_timestamp_ns]
    IN  With(check_market_order(n.ex.position, order, fill_price,
                                n.ex.balances),
             LAMBDA risk :
               IF risk # "Ok" THEN Result(n.ex, risk, << >>, NoPanic)
               ELSE With(settle_filled_market_order(n.ex, filled),
                         LAMBDA s : Result(s.ex, "Ok", << filled >>, s.panic)))

\* Exchange::submit_market_order
submit_market_order(ex, order) ==
    With(aquire(ex.order_rate_limiter, ex.market_state.current_timestamp_ns),
         LAMBDA a :
           LET ex1 == [ex EXCEPT !.order_rate_limiter = a.limiter]
           IN  IF ~a.ok THEN Result(ex, "RateLimitExceeded", << >>, NoPanic)
               ELSE With(validate_order_quantity(order.quantity),
                         LAMBDA qty_ok :
                           IF qty_ok # "Ok"
                           THEN Result(ex1, qty_ok, << >>, NoPanic)
                           ELSE With(next_order_id(ex1),
                                     LAMBDA n :
                                       submit_market_order_pending(n, order))))

\* Exchange::liquidate: closes the position with a market order.
liquidate(ex) ==
    IF ex.position.kind = "Neutral"
    THEN [ex |-> ex, panic |-> "A neutral position can not be liquidated"]
    ELSE LET order == IF ex.position.kind = "Long"
                      THEN NewMarketOrder("Sell", ex.position.quantity)
                      ELSE NewMarketOrder("Buy", ex.position.quantity)
         IN  With(submit_market_order(ex, order),
                  LAMBDA r :
                    IF r.panic # NoPanic THEN [ex |-> r.ex, panic |-> r.panic]
                    ELSE IF r.err # "Ok"
                    THEN [ex |-> r.ex,
                          panic |-> "Must be able to submit liquidation order"]
                    ELSE [ex |-> r.ex, panic |-> NoPanic])

\* Mutant of append_limit_order: the order is inserted whatever the number
\* of active orders.
append_limit_order_unbounded(ex, order, marketable) ==
    With(Rebalance(ex.balances,
                   order_margin(ex.order_margin \cup {order},
                                init_margin_req, ex.position)),
         LAMBDA r :
           IF r.ok
           THEN [ex  |-> [ex EXCEPT !.order_margin = @ \cup {order},
                                    !.balances = r.balances],
                 err |-> "Ok"]
           ELSE [ex |-> ex, err |-> "NotEnoughAvailableBalance"])

\* Mutant of append_limit_order: the order is inserted as if no position
\* were open.
append_limit_order_ignores_position(ex, order, marketable) ==
    With(try_insert(ex.order_margin, order, ex.balances, Neutral,
                    init_margin_req),
         LAMBDA r :
           [ex  |-> [ex EXCEPT !.order_margin = r.orders,
                               !.balances = r.balances],
            err |-> r.err])

\* Exchange::append_limit_order
append_limit_order(ex, order, marketable) ==
    With(try_insert(ex.order_margin, order, ex.balances, ex.position,
                    init_margin_req),
         LAMBDA r :
           [ex  |-> [ex EXCEPT !.order_margin = r.orders,
                               !.balances = r.balances],
            err |-> r.err])

\* submit_limit_order once the order has its meta (id and timestamp): the
\* risk check, the marketability check and the insertion.
submit_limit_order_pending(n, order) ==
    LET ms         == n.ex.market_state
        pending    == into_pending(order, n.oid, ms.current_timestamp_ns)
        marketable == IF order.side = "Buy"
                      THEN order.limit_price >= ms.ask
                      ELSE order.limit_price <= ms.bid
        rejected   == [limit_price |-> order.limit_price,
                       away_market_quotation_price |->
                           IF order.side = "Buy" THEN ms.ask ELSE ms.bid]
    IN  With(check_limit_order(n.ex.position, pending,
                               n.ex.balances.available, n.ex.order_margin),
             LAMBDA risk :
               IF risk # "Ok" THEN Result(n.ex, risk, << >>, NoPanic)
               ELSE IF marketable
               THEN Result(n.ex, "GoodTillCrossingRejectedOrder",
                           << rejected >>, NoPanic)
               ELSE With(append_limit_order(n.ex, pending, marketable),
                         LAMBDA ap :
                           IF ap.err # "Ok"
                           THEN Result(ap.ex, ap.err, << >>, NoPanic)
                           ELSE Result(ap.ex, "Ok", << pending >>, NoPanic)))

\* Exchange::submit_limit_order
submit_limit_order(ex, order) ==
    With(aquire(ex.order_rate_limiter, ex.market_state.current_timestamp_ns),
         LAMBDA a :
           LET ex1 == [ex EXCEPT !.order_rate_limiter = a.limiter]
           IN  IF ~a.ok THEN Result(ex, "RateLimitExceeded", << >>, NoPanic)
               ELSE With(validate_order_quantity(order.remaining_quantity),
                         LAMBDA qty_ok :
                 IF qty_ok # "Ok" THEN Result(ex1, qty_ok, << >>, NoPanic)
                 ELSE With(validate_limit_price(order.limit_price,
                                                mid_price(ex.market_state)),
                           LAMBDA price_ok :
                   IF price_ok # "Ok"
                   THEN Result(ex1, price_ok, << >>, NoPanic)
                   ELSE With(next_order_id(ex1),
                             LAMBDA n :
                               submit_limit_order_pending(n, order)))))

\* Mutant of cancel_limit_order: the order is taken out of the active
\* orders and its margin stays reserved.
cancel_limit_order_keeps_margin(ex, cancel_by) ==
    With(aquire(ex.order_rate_limiter, ex.market_state.current_timestamp_ns),
         LAMBDA a :
           LET ex1   == [ex EXCEPT !.order_rate_limiter = a.limiter]
               found == { o \in ex.order_margin : o.id = cancel_by.id }
               ex2   == [ex1 EXCEPT !.order_margin = @ \ found]
           IN  IF ~a.ok THEN Result(ex, "RateLimitExceeded", << >>, NoPanic)
               ELSE IF found = {}
               THEN Result(ex1, "OrderIdNotFound", << >>, NoPanic)
               ELSE IF active_limit_orders(ex2) = {}
                       /\ ex2.balances.order_margin # 0
               THEN Result(ex2, "Ok", << CHOOSE o \in found : TRUE >>,
                           "order margin is not zero with no active limit order")
               ELSE Result(ex2, "Ok", << CHOOSE o \in found : TRUE >>, NoPanic))

\* Mutant of cancel_limit_order_admitted: the orders resting at the limit
\* price of the addressed order are taken out with it, their margin freed.
cancel_limit_order_admitted_clears_level(ex1, cancel_by) ==
    With(remove(ex1.order_margin, cancel_by, ex1.balances, ex1.position,
                init_margin_req),
         LAMBDA r :
           LET rest == { o \in r.orders :
                           o.limit_price # r.removed[1].limit_price }
               ex2  == [ex1 EXCEPT
                          !.order_margin = rest,
                          !.balances =
                              Rebalance(r.balances,
                                        order_margin(rest, init_margin_req,
                                                     ex1.position)).balances]
           IN  IF r.err # "Ok" THEN Result(ex1, r.err, << >>, NoPanic)
               ELSE IF active_limit_orders(ex2) = {}
                       /\ ex2.balances.order_margin # 0
               THEN Result(ex2, "Ok", r.removed,
                           "order margin is not zero with no active limit order")
               ELSE Result(ex2, "Ok", r.removed, NoPanic))

\* cancel_limit_order once the rate limiter has admitted the call (ex1).
cancel_limit_order_admitted(ex1, cancel_by) ==
    With(remove(ex1.order_margin, cancel_by, ex1.balances, ex1.position,
                init_margin_req),
         LAMBDA r :
           LET ex2 == [ex1 EXCEPT !.order_margin = r.orders,
                                  !.balances = r.balances]
           IN  IF r.err # "Ok" THEN Result(ex1, r.err, << >>, NoPanic)
               ELSE IF active_limit_orders(ex2) = {}
                       /\ ex2.balances.order_margin # 0
               THEN Result(ex2, "Ok", r.removed,
                           "order margin is not zero with no active limit order")
               ELSE Result(ex2, "Ok", r.removed, NoPanic))

\* Exchange::cancel_limit_order
cancel_limit_order(ex, cancel_by) ==
    With(aquire(ex.order_rate_limiter, ex.market_state.current_timestamp_ns),
         LAMBDA a :
           IF ~a.ok THEN Result(ex, "RateLimitExceeded", << >>, NoPanic)
           ELSE cancel_limit_order_admitted(
                    [ex EXCEPT !.order_rate_limiter = a.limiter], cancel_by))

\* Mutant of amend_limit_order_existing: the new order is given what
\* remains of the existing order, the change of the total quantity left out.
amend_limit_order_existing_keeps_leaves(ex1, existing_order, new_order) ==
    LET qty_delta      == new_order.total_quantity
                            - existing_order.total_quantity
        new_leaves_qty == existing_order.remaining_quantity + qty_delta
    IN  With(cancel_limit_order(ex1, OrderId(existing_order.id)),
             LAMBDA c :
               IF c.panic # NoPanic THEN c
               ELSE IF new_leaves_qty <= 0
               THEN IF c.err # "Ok"
                    THEN Result(c.ex, c.err, << >>, "Can cancel this order")
                    ELSE Result(c.ex, "AmendQtyAlreadyFilled", << >>, NoPanic)
               ELSE IF c.err # "Ok" THEN Result(c.ex, c.err, << >>, NoPanic)
               ELSE submit_limit_order(
                        c.ex,
                        [new_order EXCEPT !.remaining_quantity =
                                              existing_order.remaining_quantity]))

\* Mutant of amend_limit_order_existing: the new order is submitted before
\* the existing one is cancelled.
amend_limit_order_existing_submits_first(ex1, existing_order, new_order) ==
    LET qty_delta      == new_order.total_quantity
                            - existing_order.total_quantity
        new_leaves_qty == existing_order.remaining_quantity + qty_delta
    IN  IF new_leaves_qty <= 0
        THEN With(cancel_limit_order(ex1, OrderId(existing_order.id)),
                  LAMBDA c :
                    IF c.panic # NoPanic THEN c
                    ELSE IF c.err # "Ok"
                    THEN Result(c.ex, c.err, << >>, "Can cancel this order")
                    ELSE Result(c.ex, "AmendQtyAlreadyFilled", << >>, NoPanic))
        ELSE With(submit_limit_order(
                      ex1,
                      [new_order EXCEPT !.remaining_quantity = new_leaves_qty]),
                  LAMBDA sub :
                    IF sub.panic # NoPanic \/ sub.err # "Ok" THEN sub
                    ELSE With(cancel_limit_order(sub.ex,
                                                 OrderId(existing_order.id)),
                              LAMBDA c :
                                IF c.panic # NoPanic \/ c.err # "Ok"
                                THEN Result(c.ex, c.err, << >>, c.panic)
                                ELSE Result(c.ex, "Ok", sub.value, NoPanic)))

\* Mutant of amend_limit_order_existing: the new leaves quantity is what
\* remains of the existing order plus the new total quantity (the total
\* of the existing order is not subtracted).
amend_limit_order_existing_adds_total(ex1, existing_order, new_order) ==
    LET new_leaves_qty == existing_order.remaining_quantity
                            + new_order.total_quantity
    IN  With(cancel_limit_order(ex1, OrderId(existing_order.id)),
             LAMBDA c :
               IF c.panic # NoPanic THEN c
               ELSE IF new_leaves_qty <= 0
               THEN IF c.err # "Ok"
                    THEN Result(c.ex, c.err, << >>, "Can cancel this order")
                    ELSE Result(c.ex, "AmendQtyAlreadyFilled", << >>, NoPanic)
               ELSE IF c.err # "Ok" THEN Result(c.ex, c.err, << >>, NoPanic)
               ELSE submit_limit_order(
                        c.ex,
                        [new_order EXCEPT !.remaining_quantity = new_leaves_qty]))

\* amend_limit_order once the existing order was found: the new leaves
\* quantity, the cancel of the existing order and the submission of the new.
amend_limit_order_existing(ex1, existing_order, new_order) ==
    LET qty_delta      == new_order.total_quantity
                            - existing_order.total_quantity
        new_leaves_qty == existing_order.remaining_quantity + qty_delta
    IN  With(cancel_limit_order(ex1, OrderId(existing_order.id)),
             LAMBDA c :
               IF c.panic # NoPanic THEN c
               ELSE IF new_leaves_qty <= 0
               THEN IF c.err # "Ok"
                    THEN Result(c.ex, c.err, << >>, "Can cancel this order")
                    ELSE Result(c.ex, "AmendQtyAlreadyFilled", << >>, NoPanic)
               ELSE IF c.err # "Ok" THEN Result(c.ex, c.err, << >>, NoPanic)
               ELSE submit_limit_order(
                        c.ex,
                        [new_order EXCEPT !.remaining_quantity = new_leaves_qty]))

\* Exchange::amend_limit_order
amend_limit_order(ex, existing_order_id, new_order) ==
    With(aquire(ex.order_rate_limiter, ex.market_state.current_timestamp_ns),
         LAMBDA a :
           LET ex1 == [ex EXCEPT !.order_rate_limiter = a.limiter]
           IN  IF ~a.ok THEN Result(ex, "RateLimitExceeded", << >>, NoPanic)
               ELSE With(get_by_id(active_limit_orders(ex),
                                   existing_order_id, new_order.side),
                         LAMBDA found :
                           IF found = << >>
                           THEN Result(ex1,
                                       IF existing_order_id < ex1.next_order_id
                                       THEN "OrderNoLongerActive"
                                       ELSE "OrderIdNotFound",
                                       << >>, NoPanic)
                           ELSE amend_limit_order_existing(ex1, found[1],
                                                           new_order)))

\* fill_limit_order after the fee, the fill event and the order margin:
\* the position changes and the order margin is recomputed against it.
\* `om` is [orders, balances] of the order margin after the fill.
fill_limit_order_position(ex, om, update, filled_qty) ==
    With(change(ex.position, om.balances, filled_qty,
                update.order_after_fill.limit_price,
                update.order_after_fill.side, init_margin_req),
         LAMBDA c :
           LET ex2 == [ex EXCEPT !.order_margin = om.orders,
                                 !.limit_order_updates = Append(@, update),
                                 !.position = c.position,
                                 !.balances = c.balances]
           IN  IF c.panic # NoPanic THEN [ex |-> ex2, panic |-> c.panic]
               ELSE With(order_margin(om.orders, init_margin_req, c.position),
                         LAMBDA new_order_margin :
                 IF new_order_margin < c.balances.order_margin
                 THEN [ex |-> [ex2 EXCEPT !.balances =
                                  free_order_margin(
                                      c.balances,
                                      c.balances.order_margin - new_order_margin)],
                       panic |-> NoPanic]
                 ELSE IF new_order_margin = c.balances.order_margin
                 THEN [ex |-> ex2, panic |-> NoPanic]
                 ELSE With(try_reserve_order_margin(
                               c.balances,
                               new_order_margin - c.balances.order_margin),
                           LAMBDA reserve :
                             IF reserve.ok
                             THEN [ex |-> [ex2 EXCEPT !.balances =
                                                          reserve.balances],
                                   panic |-> NoPanic]
                             ELSE [ex |-> ex2,
                                   panic |-> "Can reserve order margin"])))

\* Mutant of fill_limit_order: the maker fee is the notional times the fee
\* rate without the fixed-point scaling.
fill_limit_order_fee_unscaled(ex, order, filled_qty, ts_ns) ==
    LET limit_price == order.limit_price
        notional    == convert_from(filled_qty, limit_price)
        fee         == notional * fee_maker
        b1          == account_for_fee(ex.balances, fee)
    IN  With(fill(order, filled_qty, fee, ts_ns),
             LAMBDA update :
               IF update.kind = "FullyFilled"
               THEN With(remove(ex.order_margin, OrderId(order.id), b1,
                                ex.position, init_margin_req),
                         LAMBDA rm :
                           IF rm.err # "Ok"
                           THEN [ex |-> [ex EXCEPT !.balances = b1],
                                 panic |->
                                   "Can remove order as its an internal call"]
                           ELSE fill_limit_order_position(ex, rm, update,
                                                          filled_qty))
               ELSE fill_limit_order_position(
                        ex,
                        fill_order(ex.order_margin, update.order_after_fill,
                                   b1, ex.position, init_margin_req),
                        update, filled_qty))

\* Exchange::fill_limit_order
fill_limit_order(ex, order, filled_qty, ts_ns) ==
    LET limit_price == order.limit_price
        notional    == convert_from(filled_qty, limit_price)
        fee         == mul(notional, fee_maker)
        b1          == account_for_fee(ex.balances, fee)
    IN  With(fill(order, filled_qty, fee, ts_ns),
             LAMBDA update :
               IF update.kind = "FullyFilled"
               THEN With(remove(ex.order_margin, OrderId(order.id), b1,
                                ex.position, init_margin_req),
                         LAMBDA rm :
                           IF rm.err # "Ok"
                           THEN [ex |-> [ex EXCEPT !.balances = b1],
                                 panic |->
                                   "Can remove order as its an internal call"]
                           ELSE fill_limit_order_position(ex, rm, update,
                                                          filled_qty))
               ELSE fill_limit_order_position(
                        ex,
                        fill_order(ex.order_margin, update.order_after_fill,
                                   b1, ex.position, init_margin_req),
                        update, filled_qty))

\* Mutant of FillLoop: the order taken in each round is the one last in
\* the book of its side (worst price, latest id) instead of the best.
RECURSIVE FillLoop_worst_first(_, _, _)
FillLoop_worst_first(ex, market_update, bids) ==
    With(LET side == OfSide(active_limit_orders(ex),
                            IF bids THEN "Buy" ELSE "Sell")
         IN  IF side = {} THEN << >>
             ELSE << CHOOSE o \in side : \A p \in side : ~Before(o, p) >>,
         LAMBDA peek :
           IF peek = << >>
           THEN [ex |-> ex, trade |-> market_update, returned |-> FALSE,
                 panic |-> NoPanic]
           ELSE With(limit_order_filled(market_update, peek[1]),
                     LAMBDA lof :
             IF ~lof.some
             THEN [ex |-> ex, trade |-> lof.trade, returned |-> FALSE,
                   panic |-> NoPanic]
             ELSE With(fill_limit_order(ex, peek[1], lof.filled_qty,
                                        market_update.timestamp_exchange_ns),
                       LAMBDA f :
                         IF f.panic # NoPanic
                         THEN [ex |-> f.ex, trade |-> lof.trade,
                               returned |-> TRUE, panic |-> f.panic]
                         ELSE IF lof.exhausted
                         THEN [ex |-> f.ex, trade |-> lof.trade,
                               returned |-> TRUE, panic |-> NoPanic]
                         ELSE FillLoop_worst_first(f.ex, lof.trade, bids))))

\* The loop of check_active_orders over the best bid (peek = peek_best_bid)
\* or the best ask: [ex, trade, returned, panic], `returned` when the trade
\* was exhausted (the method returns from inside the loop).
RECURSIVE FillLoop(_, _, _)
FillLoop(ex, market_update, bids) ==
    With(IF bids THEN peek_best_bid(active_limit_orders(ex))
         ELSE peek_best_ask(active_limit_orders(ex)),
         LAMBDA peek :
           IF peek = << >>
           THEN [ex |-> ex, trade |-> market_update, returned |-> FALSE,
                 panic |-> NoPanic]
           ELSE With(limit_order_filled(market_update, peek[1]),
                     LAMBDA lof :
             IF ~lof.some
             THEN [ex |-> ex, trade |-> lof.trade, returned |-> FALSE,
                   panic |-> NoPanic]
             ELSE With(fill_limit_order(ex, peek[1], lof.filled_qty,
                                        market_update.timestamp_exchange_ns),
                       LAMBDA f :
                         IF f.panic # NoPanic
                         THEN [ex |-> f.ex, trade |-> lof.trade,
                               returned |-> TRUE, panic |-> f.panic]
                         ELSE IF lof.exhausted
                         THEN [ex |-> f.ex, trade |-> lof.trade,
                               returned |-> TRUE, panic |-> NoPanic]
                         ELSE FillLoop(f.ex, lof.trade, bids))))

\* Mutant of check_active_orders: the fill events of the previous call are
\* not cleared.
check_active_orders_keeps_updates(ex, market_update) ==
    LET no_fill == [ex |-> ex, trade |-> market_update,
                    returned |-> FALSE, panic |-> NoPanic]
    IN  IF ~CAN_FILL_LIMIT_ORDERS(market_update)
        THEN [ex |-> ex, panic |-> NoPanic]
        ELSE With(IF can_fill_bids(market_update)
                  THEN FillLoop(ex, market_update, TRUE)
                  ELSE no_fill,
                  LAMBDA bids :
                    IF bids.returned \/ ~can_fill_asks(bids.trade)
                    THEN [ex |-> bids.ex, panic |-> bids.panic]
                    ELSE With(FillLoop(bids.ex, bids.trade, FALSE),
                              LAMBDA asks :
                                [ex |-> asks.ex, panic |-> asks.panic]))

\* Exchange::check_active_orders
check_active_orders(ex, market_update) ==
    LET cleared == [ex EXCEPT !.limit_order_updates = << >>]
        no_fill == [ex |-> cleared, trade |-> market_update,
                    returned |-> FALSE, panic |-> NoPanic]
    IN  IF ~CAN_FILL_LIMIT_ORDERS(market_update)
        THEN [ex |-> cleared, panic |-> NoPanic]
        ELSE With(IF can_fill_bids(market_update)
                  THEN FillLoop(cleared, market_update, TRUE)
                  ELSE no_fill,
                  LAMBDA bids :
                    IF bids.returned \/ ~can_fill_asks(bids.trade)
                    THEN [ex |-> bids.ex, panic |-> bids.panic]
                    ELSE With(FillLoop(bids.ex, bids.trade, FALSE),
                              LAMBDA asks :
                                [ex |-> asks.ex, panic |-> asks.panic]))

\* Exchange::update_state
update_state(ex, market_update) ==
    With([ex EXCEPT !.market_state = MarketStateUpdate(@, market_update)],
         LAMBDA ex1 :
           With(check_maintenance_margin(ex1.market_state, ex1.position),
                LAMBDA e :
                  IF e # "Ok"
                  THEN With(liquidate(ex1),
                            LAMBDA liq : Result(liq.ex, e, << >>, liq.panic))
                  ELSE With(check_active_orders(ex1, market_update),
                            LAMBDA fills :
                              Result(fills.ex, "Ok",
                                     fills.ex.limit_order_updates,
                                     fills.panic))))

\* ------------------------------------------------------------------------
\* The state machine
\* ------------------------------------------------------------------------

VARIABLES
    exchange,      \* the Exchange
    call,          \* the last call made: [op, ...its arguments]
    ret,           \* what it returned: [err, value]
    panicked,      \* the panic that aborted the last call, or NoPanic
    fully_filled,  \* ids of the FullyFilled events returned so far
    calls,         \* number of calls made
    last_accepted, \* id of the last order a call returned Ok, -1 if none
    order_calls    \* number of calls of the order methods made

vars ==
    << exchange, call, ret, panicked, fully_filled, calls, last_accepted,
       order_calls >>

Init ==
    /\ exchange = NewExchange
    /\ call = [op |-> "new"]
    /\ ret = [err |-> "Ok", value |-> << >>]
    /\ panicked = NoPanic
    /\ fully_filled = {}
    /\ calls = 0
    /\ last_accepted = -1
    /\ order_calls = 0

\* The caller holds a live exchange: a panic ends the run.
Live == panicked = NoPanic /\ calls < MaxCalls

\* Orders are submitted once quotes are known (bid and ask are positive).
Quoted == exchange.market_state.bid > 0 /\ exchange.market_state.ask > 0

\* The exchange after a call, and what the call returned.
Returns(r) ==
    /\ exchange' = r.ex
    /\ ret' = [err |-> r.err, value |-> r.value]
    /\ panicked' = r.panic
    /\ calls' = calls + 1

\* Timestamps an update may carry: the current one, or one more than a
\* second later.
NextTimestamps ==
    { t \in 0..MaxTs :
        \/ t = exchange.market_state.current_timestamp_ns
        \/ t = exchange.market_state.current_timestamp_ns + OneSecond + 1 }

\* A call of an order method that returns an order: the order accepted, if
\* it returned Ok, is the last accepted one.
OrderCall ==
    /\ order_calls' = order_calls + 1
    /\ last_accepted' = IF panicked' = NoPanic /\ ret'.err = "Ok"
                        THEN ret'.value[1].id ELSE last_accepted

FullyFilledIds(r) ==
    IF r.panic = NoPanic /\ r.err = "Ok"
    THEN { r.value[i].order_after_fill.id :
             i \in { j \in DOMAIN r.value : r.value[j].kind = "FullyFilled" } }
    ELSE {}

UpdateStateBba ==
    /\ Live
    /\ \E q \in Quotes, t \in NextTimestamps :
         LET u == Bba(q[1], q[2], t)
             r == update_state(exchange, u)
         IN  /\ call' = [op |-> "update_state", market_update |-> u]
             /\ Returns(r)
             /\ fully_filled' = fully_filled \cup FullyFilledIds(r)
             /\ UNCHANGED << last_accepted, order_calls >>

UpdateStateTrade ==
    /\ Live
    /\ Quoted
    /\ \E t \in Trades, q \in Quantities :
         LET u == Trade(t[2], q, t[1],
                        exchange.market_state.current_timestamp_ns)
             r == update_state(exchange, u)
         IN  /\ call' = [op |-> "update_state", market_update |-> u]
             /\ Returns(r)
             /\ fully_filled' = fully_filled \cup FullyFilledIds(r)
             /\ UNCHANGED << last_accepted, order_calls >>

SubmitMarketOrder ==
    /\ Live
    /\ Quoted
    /\ \E s \in Sides, q \in Quantities :
         LET order == NewMarketOrder(s, q)
         IN  /\ call' = [op |-> "submit_market_order", order |-> order]
             /\ Returns(submit_market_order(exchange, order))
             /\ OrderCall
             /\ UNCHANGED fully_filled

SubmitLimitOrder ==
    /\ Live
    /\ Quoted
    /\ \E l \in LimitOrders, q \in Quantities :
         LET order == NewLimitOrder(l[1], l[2], q)
         IN  /\ call' = [op |-> "submit_limit_order", order |-> order]
             /\ Returns(submit_limit_order(exchange, order))
             /\ OrderCall
             /\ UNCHANGED fully_filled

ActiveIds == { o.id : o \in active_limit_orders(exchange) }

\* Ids that are not active: the first one assigned that is no longer (or
\* never was) a resting order, and the next one, not assigned yet.
InactiveIds ==
    LET assigned == (0..(exchange.next_order_id - 1)) \ ActiveIds
    IN  {exchange.next_order_id} \cup
        { i \in assigned : \A j \in assigned : i <= j }

AmendLimitOrder ==
    /\ Live
    /\ Quoted
    /\ \E id \in ActiveIds \cup InactiveIds, l \in AmendOrders,
          q \in Quantities :
         LET order == NewLimitOrder(l[1], l[2], q)
         IN  /\ id \in InactiveIds => l = <<"Buy", Q(100)>> /\ q = 1
             /\ call' = [op |-> "amend_limit_order", existing_order_id |-> id,
                         order |-> order]
             /\ Returns(amend_limit_order(exchange, id, order))
             /\ OrderCall
             /\ UNCHANGED fully_filled

CancelLimitOrder ==
    /\ Live
    /\ Quoted
    /\ \E id \in ActiveIds \cup InactiveIds :
         /\ call' = [op |-> "cancel_limit_order", cancel_by |-> OrderId(id)]
         /\ Returns(cancel_limit_order(exchange, OrderId(id)))
         /\ order_calls' = order_calls + 1
         /\ UNCHANGED << fully_filled, last_accepted >>

Next ==
    \/ UpdateStateBba
    \/ UpdateStateTrade
    \/ SubmitMarketOrder
    \/ SubmitLimitOrder
    \/ AmendLimitOrder
    \/ CancelLimitOrder

Spec == Init /\ [][Next]_vars

\* The same exchange constructed with twice the starting wallet balance,
\* which lets two orders rest whose notional the balance of Init does not
\* cover.
InitFunded ==
    /\ exchange = [NewExchange EXCEPT
                     !.balances = NewBalances(2 * starting_wallet_balance)]
    /\ call = [op |-> "new"]
    /\ ret = [err |-> "Ok", value |-> << >>]
    /\ panicked = NoPanic
    /\ fully_filled = {}
    /\ calls = 0
    /\ last_accepted = -1
    /\ order_calls = 0

SpecFunded == InitFunded /\ [][Next]_vars

\* ------------------------------------------------------------------------
\* Trade::limit_order_filled on its own: every trade against every order.
\* ------------------------------------------------------------------------

\* Resting orders a trade may meet: every side, limit price and remaining
\* quantity (of a total of 3, so also partially filled ones).
RestingOrders ==
    { [id |-> 0, side |-> l[1], limit_price |-> l[2], total_quantity |-> 3,
       remaining_quantity |-> r, timestamp |-> 0] :
        l \in LimitOrders, r \in 1..3 }

TradeUpdates ==
    { Trade(t[2], q, t[1], 0) : t \in Trades, q \in 1..3 }

LimitOrderFilled ==
    /\ call.op = "new"
    /\ \E t \in TradeUpdates, o \in RestingOrders :
         LET r == limit_order_filled(t, o)
         IN  /\ call' = [op |-> "limit_order_filled", trade |-> t, order |-> o]
             /\ ret' = [err |-> IF r.some THEN "Some" ELSE "None",
                        value |-> << r.filled_qty, r.exhausted >>,
                        trade |-> r.trade]
             /\ UNCHANGED << exchange, panicked, fully_filled, calls,
                             last_accepted, order_calls >>

SpecTrade == Init /\ [][LimitOrderFilled]_vars

\* ------------------------------------------------------------------------
\* Properties
\* ------------------------------------------------------------------------

\* The last call returned (it did not panic).
Returned == panicked = NoPanic

Balances == exchange.balances

ActiveOrders == active_limit_orders(exchange)

\* C1: after every public operation balances.order_margin equals the order
\* margin recomputed from the resting limit orders and the position.
C1_OrderMarginIsRecomputed ==
    Returned =>
        Balances.order_margin
            = order_margin(ActiveOrders, init_margin_req, exchange.position)

\* C2: after every public operation no balance partition is negative.
C2_NoPartitionNegative ==
    Returned =>
        /\ Balances.available >= 0
        /\ Balances.position_margin >= 0
        /\ Balances.order_margin >= 0

\* C3: after every public operation the partitions add up to the starting
\* wallet balance plus the realized pnl minus the fees paid.
C3_Conservation ==
    Returned =>
        Balances.available + Balances.position_margin + Balances.order_margin
            = starting_wallet_balance + Balances.realized_pnl
                - Balances.fees_paid

\* C3 witness: fees were paid, a loss or profit was realized and both
\* margins are reserved.
C3_Witness ==
    /\ Returned
    /\ Balances.fees_paid > 0
    /\ Balances.realized_pnl # 0
    /\ Balances.position_margin > 0
    /\ Balances.order_margin > 0

\* C4: with no active limit order the order margin is zero, in every state
\* (so the assertion of cancel_limit_order never fails either).
C4_NoOrdersNoOrderMargin ==
    /\ ActiveOrders = {} => Balances.order_margin = 0
    /\ panicked # "order margin is not zero with no active limit order"

\* C4 witness: the last resting order was cancelled while a position is
\* open.
C4_Witness ==
    /\ Returned
    /\ call.op = "cancel_limit_order"
    /\ ret.err = "Ok"
    /\ ActiveOrders = {}
    /\ exchange.position.kind # "Neutral"

\* The trade strictly crosses the limit price of an order of the other side.
Crosses(t, o) ==
    \/ o.side = "Buy"  /\ t.side = "Sell" /\ t.price < o.limit_price
    \/ o.side = "Sell" /\ t.side = "Buy"  /\ t.price > o.limit_price

\* This step is a call of update_state.
UpdateStateStep == calls' = calls + 1 /\ call'.op = "update_state"

\* update_state finds the maintenance margin breached by the update.
Breach ==
    check_maintenance_margin(
        MarketStateUpdate(exchange.market_state, call'.market_update),
        exchange.position) = "Liquidation"

\* The balances after a position of the exchange is closed at `price` by a
\* market order: the loss realized and the taker fee paid.
BalancesAfterClose(price) ==
    LET pos == exchange.position
        b   == exchange.balances
        pnl == IF pos.kind = "Long"
               THEN pos.quantity * (price - pos.entry_price)
               ELSE pos.quantity * (pos.entry_price - price)
        fee == mul(pos.quantity * price, fee_taker)
    IN  [available |-> b.available + b.position_margin + pnl - fee,
         position_margin |-> 0,
         order_margin |-> b.order_margin,
         fees_paid |-> b.fees_paid + fee,
         realized_pnl |-> b.realized_pnl + pnl]

\* C5: when update_state detects a maintenance margin breach it returns
\* Err(Liquidation), the position is Neutral afterwards, the active limit
\* orders are those of before, and the balances reflect the realized loss
\* and the taker fee of the close at the bid (Long) or the ask (Short).
C5_LiquidationClosesPosition ==
    [][ (UpdateStateStep /\ Breach) =>
          /\ panicked' = NoPanic
          /\ ret'.err = "Liquidation"
          /\ exchange'.position = Neutral
          /\ exchange'.order_margin = exchange.order_margin
          /\ exchange'.balances =
               BalancesAfterClose(IF exchange.position.kind = "Long"
                                  THEN exchange'.market_state.bid
                                  ELSE exchange'.market_state.ask) ]_vars

\* C6: the market order of liquidate() is always accepted: the expect
\* "Must be able to submit liquidation order" never fires.
C6_LiquidationOrderAccepted ==
    panicked # "Must be able to submit liquidation order"

\* A call of update_state with a Trade that returned Ok.
TradeReturnedOk ==
    /\ UpdateStateStep
    /\ call'.market_update.kind = "Trade"
    /\ panicked' = NoPanic
    /\ ret'.err = "Ok"

\* C7: a trade fills only orders of the other side whose limit price it
\* strictly crosses; the best order it crosses is filled; an order it does
\* not cross (same side, or trade price at or beyond the limit price) is
\* left as it was.
C7_TradeFillsOnStrictCross ==
    [][ TradeReturnedOk =>
          LET t      == call'.market_update
              events == ret'.value
              before == exchange.order_margin
          IN  /\ \A i \in DOMAIN events :
                    Crosses(t, events[i].order_after_fill)
              /\ \A o \in before :
                    (Crosses(t, o) /\ o = Best(before, o.side)) =>
                        \E i \in DOMAIN events :
                            events[i].order_after_fill.id = o.id
              /\ \A o \in before :
                    ~Crosses(t, o) => o \in exchange'.order_margin ]_vars

\* C7 witness: a trade has filled a resting order.
C7_Witness ==
    /\ Returned
    /\ call.op = "update_state"
    /\ call.market_update.kind = "Trade"
    /\ ret.err = "Ok"
    /\ ret.value # << >>
    /\ Crosses(call.market_update, ret.value[1].order_after_fill)

\* Quantity of the position, negative for a Short.
Signed(pos) ==
    IF pos.kind = "Short" THEN 0 - pos.quantity ELSE pos.quantity

C9_FullyFilledNeverActive ==
    \A o \in ActiveOrders : o.id \notin fully_filled

\* C9 witness: an order was fully filled and a later limit order rests.
C9_Witness ==
    /\ Returned
    /\ fully_filled # {}
    /\ call.op = "submit_limit_order"
    /\ ret.err = "Ok"
    /\ ActiveOrders # {}

\* C10: on an order it fills, limit_order_filled returns the smaller of the
\* quantity of the trade and what remains of the order, reduces the trade
\* by it and reports exhausted iff the trade is left with nothing; on an
\* order it does not fill it returns None and leaves the trade as it was.
C10_LimitOrderFilled ==
    call.op = "limit_order_filled" =>
        LET t      == call.trade
            o      == call.order
            filled == ret.value[1]
        IN  IF Crosses(t, o)
            THEN /\ ret.err = "Some"
                 /\ filled <= t.quantity
                 /\ filled <= o.remaining_quantity
                 /\ filled = t.quantity \/ filled = o.remaining_quantity
                 /\ ret.trade = [t EXCEPT !.quantity = @ - filled]
                 /\ ret.value[2] <=> (ret.trade.quantity = 0)
            ELSE /\ ret.err = "None"
                 /\ ret.trade = t

\* C10 witness: a trade larger than the order it fills: the order's
\* quantity is filled, the trade is not exhausted and keeps the rest.
C10_Witness ==
    /\ call.op = "limit_order_filled"
    /\ ret.err = "Some"
    /\ call.trade.quantity > call.order.remaining_quantity
    /\ ret.value = << call.order.remaining_quantity, FALSE >>
    /\ ret.trade.quantity
         = call.trade.quantity - call.order.remaining_quantity

\* This step is a call of amend_limit_order.
AmendStep == calls' = calls + 1 /\ call'.op = "amend_limit_order"

\* Ids of the orders of a set.
Ids(orders) == { o.id : o \in orders }

\* C11: after amend_limit_order(oid, new) returns Ok the order oid is not
\* active; in its place one order is active with an id above every id
\* assigned before, on the same side, with the total quantity and the limit
\* price of `new` and remaining = existing remaining + (new total -
\* existing total); the number of active orders and the position are those
\* of before.
C11_AmendReplacesOrder ==
    [][ (AmendStep /\ panicked' = NoPanic /\ ret'.err = "Ok") =>
          \E existing \in exchange.order_margin :
            LET new == ret'.value[1]
            IN  /\ existing.id = call'.existing_order_id
                /\ existing.id \notin Ids(exchange'.order_margin)
                /\ new.id >= exchange.next_order_id
                /\ new.id > last_accepted
                /\ exchange'.order_margin =
                     (exchange.order_margin \ {existing}) \cup {new}
                /\ new.side = existing.side
                /\ new.side = call'.order.side
                /\ new.total_quantity = call'.order.total_quantity
                /\ new.limit_price = call'.order.limit_price
                /\ new.remaining_quantity =
                     existing.remaining_quantity
                       + (call'.order.total_quantity - existing.total_quantity)
                /\ Cardinality(exchange'.order_margin) =
                     Cardinality(exchange.order_margin)
                /\ exchange'.position = exchange.position ]_vars

\* C11 witness: an amend of a partially filled order returned Ok: the new
\* order is active with less remaining than its total quantity.
C11_Witness ==
    /\ Returned
    /\ call.op = "amend_limit_order"
    /\ ret.err = "Ok"
    /\ ret.value[1] \in ActiveOrders
    /\ ret.value[1].remaining_quantity < ret.value[1].total_quantity
    /\ call.existing_order_id \notin Ids(ActiveOrders)

\* The rate limiter admits the amend that this step calls.
AmendAdmitted ==
    aquire(exchange.order_rate_limiter,
           exchange.market_state.current_timestamp_ns).ok

\* The active order the amend of this step finds: the one with the id it
\* names, looked up on the side of the new order.
AmendFound ==
    { o \in exchange.order_margin :
        o.id = call'.existing_order_id /\ o.side = call'.order.side }

\* What remains of `existing` once the amend of this step is applied.
NewLeaves(existing) ==
    existing.remaining_quantity
      + (call'.order.total_quantity - existing.total_quantity)

\* C12: an amend that passes its rate-limit check and finds the existing
\* order with new leaves <= 0 returns Err(AmendQtyAlreadyFilled): the
\* existing order is no longer active and its margin is released, no new
\* order is created and the position is unchanged (the inner cancel never
\* fails or panics).
C12_AmendQtyAlreadyFilled ==
    [][ \A existing \in exchange.order_margin :
          ( /\ AmendStep
            /\ AmendAdmitted
            /\ existing \in AmendFound
            /\ NewLeaves(existing) <= 0 ) =>
          /\ panicked' = NoPanic
          /\ ret'.err = "AmendQtyAlreadyFilled"
          /\ exchange'.order_margin = exchange.order_margin \ {existing}
          /\ exchange'.balances.order_margin =
               order_margin(exchange.order_margin \ {existing},
                            init_margin_req, exchange.position)
          /\ exchange'.next_order_id = exchange.next_order_id
          /\ exchange'.position = exchange.position ]_vars

\* What the cancel that the amend of this step makes of `existing` returns
\* (Ok or the error): it is made after the amend's own rate-limit check.
InnerCancel(existing) ==
    cancel_limit_order(
        [exchange EXCEPT !.order_rate_limiter =
            aquire(@, exchange.market_state.current_timestamp_ns).limiter],
        OrderId(existing.id)).err

\* The step leaves the active orders, the position and the balances alone.
AccountUnchanged ==
    /\ exchange'.order_margin = exchange.order_margin
    /\ exchange'.position = exchange.position
    /\ exchange'.balances = exchange.balances

\* C13: an amend that returns an error before its re-submission (its own
\* rate limit, the lookup, the inner cancel) leaves the existing order, the
\* position and the balances unchanged; one that returns an error after
\* that has cancelled the existing order, which stays cancelled, and no new
\* order is active.  After no amend are the old and the new order both
\* active.
C13_AmendNonAtomicOnlyInResubmit ==
    [][ AmendStep =>
          /\ (panicked' = NoPanic /\ ret'.err # "Ok") =>
               IF \/ ~AmendAdmitted
                  \/ AmendFound = {}
                  \/ \E e \in AmendFound : InnerCancel(e) # "Ok"
               THEN AccountUnchanged
               ELSE \A e \in AmendFound :
                      /\ exchange'.order_margin = exchange.order_margin \ {e}
                      /\ exchange'.position = exchange.position
          /\ \A e \in AmendFound :
               e.id \in Ids(exchange'.order_margin) =>
                 Ids(exchange'.order_margin) \subseteq Ids(exchange.order_margin)
       ]_vars

\* C13 witness: the re-submission of an amend was rejected (the new order
\* is marketable) and the order it named is no longer active.
C13_Witness ==
    /\ Returned
    /\ call.op = "amend_limit_order"
    /\ ret.err = "GoodTillCrossingRejectedOrder"
    /\ call.existing_order_id \notin Ids(ActiveOrders)
    /\ call.existing_order_id < exchange.next_order_id - 1

\* A step that is a call of submit_limit_order.
SubmitLimitStep == calls' = calls + 1 /\ call'.op = "submit_limit_order"

\* The order crosses the quote of the market state: the `marketable` of
\* submit_limit_order.
Marketable(order) ==
    IF order.side = "Buy"
    THEN order.limit_price >= exchange.market_state.ask
    ELSE order.limit_price <= exchange.market_state.bid

\* The quote on the other side of the order.
AwayQuote(order) ==
    IF order.side = "Buy"
    THEN exchange.market_state.ask
    ELSE exchange.market_state.bid

\* C14: a marketable GoodTillCrossing limit order is never accepted; its
\* rejection carries the limit price and the away quote and changes no
\* state: active limit orders, position, balances and the next order id to
\* be assigned are those of before the call.
C14_GoodTillCrossingRejectedNoStateChange ==
    [][ SubmitLimitStep =>
          /\ Marketable(call'.order) => ret'.err # "Ok"
          /\ ret'.err = "GoodTillCrossingRejectedOrder" =>
               /\ panicked' = NoPanic
               /\ Marketable(call'.order)
               /\ ret'.value[1].limit_price = call'.order.limit_price
               /\ ret'.value[1].away_market_quotation_price
                    = AwayQuote(call'.order)
               /\ AccountUnchanged
               /\ exchange'.next_order_id = exchange.next_order_id
       ]_vars

\* A step in which submit_market_order, submit_limit_order or
\* amend_limit_order returns Ok with the accepted order.
AcceptStep ==
    /\ calls' = calls + 1
    /\ call'.op \in {"submit_market_order", "submit_limit_order",
                     "amend_limit_order"}
    /\ panicked' = NoPanic
    /\ ret'.err = "Ok"

\* C15: every accepted order carries an id strictly greater than the id of
\* every order accepted before it, and the first order a fresh exchange
\* accepts has id 0 and the timestamp of the latest market update.
C15_OrderIdsStrictlyIncreasingFromZero ==
    [][ AcceptStep =>
          /\ ret'.value[1].id > last_accepted
          /\ last_accepted = -1 =>
               /\ ret'.value[1].id = 0
               /\ ret'.value[1].timestamp
                    = exchange.market_state.current_timestamp_ns
       ]_vars

\* A step that is a call of one of the four order operations.
OrderStep ==
    /\ calls' = calls + 1
    /\ call'.op \in {"submit_market_order", "submit_limit_order",
                     "amend_limit_order", "cancel_limit_order"}

\* C16: while the market timestamp has not advanced, each call of an order
\* operation counts as one against orders_per_second: the first
\* orders_per_second calls are not refused by the rate limiter and every
\* further one returns RateLimitExceeded.
C16_OneUnitPerOrderCall ==
    [][ (OrderStep /\ exchange.market_state.current_timestamp_ns = 0) =>
          /\ panicked' = NoPanic
          /\ (ret'.err = "RateLimitExceeded")
               <=> (order_calls >= orders_per_second)
       ]_vars

\* C17: whenever submit_market_order, submit_limit_order or
\* cancel_limit_order returns an error, the active limit orders, the
\* position and every balance are as before the call.
C17_ErrorsLeaveAccountUnchanged ==
    [][ ( /\ OrderStep
          /\ call'.op # "amend_limit_order"
          /\ panicked' = NoPanic
          /\ ret'.err # "Ok" ) => AccountUnchanged
       ]_vars

\* C17 witness: a market order was refused by the risk check while limit
\* orders were active and a position was open.
C17_Witness ==
    /\ Returned
    /\ call.op = "submit_market_order"
    /\ ret.err = "NotEnoughAvailableBalance"
    /\ ActiveOrders # {}
    /\ exchange.position.kind # "Neutral"

\* C18: an admitted amend whose id is not found among the active orders of
\* the new order's side returns OrderNoLongerActive if the id is below
\* next_order_id and OrderIdNotFound otherwise, and changes no order,
\* position or balance; and OrderNoLongerActive is returned only for an id
\* that is not active.
C18_AmendUnknownOrInactiveId ==
    [][ AmendStep =>
          /\ (AmendAdmitted /\ AmendFound = {}) =>
               /\ panicked' = NoPanic
               /\ ret'.err = IF call'.existing_order_id
                                   < exchange.next_order_id
                             THEN "OrderNoLongerActive"
                             ELSE "OrderIdNotFound"
               /\ AccountUnchanged
          /\ ret'.err = "OrderNoLongerActive" =>
               call'.existing_order_id \notin Ids(exchange.order_margin)
       ]_vars

\* A step in which submit_market_order returns Ok.
MarketOrderFilledStep ==
    /\ AcceptStep
    /\ call'.op = "submit_market_order"

\* C19: a market order of quantity q that returns Ok is filled whole at
\* the ask (Buy) or the bid (Sell) of the market state at the current
\* market timestamp; the position moves by q on the order's side, with the
\* fill price as entry price when the position is opened or turned and the
\* old entry price when it is only reduced; fees_paid grows by
\* q * fill price * taker fee; the active limit orders are untouched.
C19_MarketOrderFill ==
    [][ MarketOrderFilledStep =>
          LET order  == call'.order
              filled == ret'.value[1]
              price  == AwayQuote(order)
              before == Signed(exchange.position)
              after  == Signed(exchange'.position)
          IN  /\ filled.side = order.side
              /\ filled.quantity = order.quantity
              /\ filled.avg_fill_price = price
              /\ filled.fill_timestamp
                   = exchange.market_state.current_timestamp_ns
              /\ after = before + (IF order.side = "Buy"
                                   THEN order.quantity
                                   ELSE 0 - order.quantity)
              /\ (after # 0 /\ before * after <= 0) =>
                   exchange'.position.entry_price = price
              /\ (after # 0 /\ before * after > 0
                    /\ after * after < before * before) =>
                   exchange'.position.entry_price
                     = exchange.position.entry_price
              /\ exchange'.balances.fees_paid
                   = exchange.balances.fees_paid
                     + (order.quantity * price * fee_taker) \div Scale
              /\ exchange'.order_margin = exchange.order_margin
              /\ exchange'.limit_order_updates
                   = exchange.limit_order_updates
       ]_vars

\* C19 witness: a market Sell was filled at the bid and turned a long
\* position into a short one while a limit order was resting.
C19_Witness ==
    /\ Returned
    /\ call.op = "submit_market_order"
    /\ ret.err = "Ok"
    /\ ret.value[1].side = "Sell"
    /\ ret.value[1].avg_fill_price = exchange.market_state.bid
    /\ exchange.position.kind = "Short"
    /\ exchange.position.quantity < ret.value[1].quantity
    /\ ActiveOrders # {}

\* The order of the pre-state that a fill event of the step is about.
Resting(event) ==
    CHOOSE o \in exchange.order_margin : o.id = event.order_after_fill.id

\* C20: the fill events one update_state returns are in price-time
\* priority (better price first, then ascending id), and an order is
\* filled only if every order ahead of it on its side was fully filled
\* earlier in the same pass.
C20_PriceTimePriority ==
    [][ TradeReturnedOk =>
          LET events == ret'.value
          IN  /\ \A i \in 1..Len(events) :
                   \E o \in exchange.order_margin :
                     o.id = events[i].order_after_fill.id
              /\ \A i, j \in 1..Len(events) :
                   i < j => Before(Resting(events[i]), Resting(events[j]))
              /\ \A i \in 1..Len(events) :
                   \A p \in OfSide(exchange.order_margin,
                                   Resting(events[i]).side) :
                     Before(p, Resting(events[i])) =>
                       \E k \in 1..(i - 1) :
                         /\ events[k].kind = "FullyFilled"
                         /\ events[k].order_after_fill.id = p.id
       ]_vars

\* C20 witness: one trade filled two resting orders, the better priced one
\* first although it was submitted later.
C20_Witness ==
    /\ Returned
    /\ call.op = "update_state"
    /\ call.market_update.kind = "Trade"
    /\ ret.err = "Ok"
    /\ Len(ret.value) = 2
    /\ ret.value[1].order_after_fill.id > ret.value[2].order_after_fill.id
    /\ ret.value[1].order_after_fill.limit_price
         # ret.value[2].order_after_fill.limit_price

\* A call of update_state that returned Ok (no liquidation, no panic).
UpdateStateReturnedOk ==
    /\ UpdateStateStep
    /\ panicked' = NoPanic
    /\ ret'.err = "Ok"

\* The event is a fill of this step: it is about an order active before
\* the call, and what it filled is what that order lost.
FillOfThisStep(event) ==
    \E o \in exchange.order_margin :
      /\ o.id = event.order_after_fill.id
      /\ event.filled_quantity > 0
      /\ event.order_after_fill.remaining_quantity
           = o.remaining_quantity - event.filled_quantity

\* C21: an update that cannot fill limit orders (a Bba) and does not
\* liquidate returns no fill and leaves the active limit orders and the
\* position unchanged, even when its quotes cross resting orders; and the
\* list any update_state returns holds only fills made by that call.
C21_BbaFillsNothing ==
    [][ UpdateStateReturnedOk =>
          /\ call'.market_update.kind = "Bba" =>
               /\ ret'.value = << >>
               /\ exchange'.order_margin = exchange.order_margin
               /\ exchange'.position = exchange.position
          /\ \A i \in 1..Len(ret'.value) : FillOfThisStep(ret'.value[i])
       ]_vars

\* C21 witness: a Bba returned Ok after an earlier update fully filled an
\* order, and its quotes cross an order that is still resting.
C21_Witness ==
    /\ Returned
    /\ call.op = "update_state"
    /\ call.market_update.kind = "Bba"
    /\ ret.err = "Ok"
    /\ fully_filled # {}
    /\ \E o \in ActiveOrders :
         \/ o.side = "Buy" /\ o.limit_price >= exchange.market_state.ask
         \/ o.side = "Sell" /\ o.limit_price <= exchange.market_state.bid

\* Total remaining quantity of a set of orders.
RECURSIVE RemainingOf(_)
RemainingOf(orders) ==
    IF orders = {} THEN 0
    ELSE LET o == CHOOSE o \in orders : TRUE
         IN  o.remaining_quantity + RemainingOf(orders \ {o})

\* The part of order o that `offset` does not cover, the offset covering
\* the orders ahead of o on its side first.
Uncovered(orders, o, offset) ==
    LET ahead == RemainingOf({ p \in OfSide(orders, o.side) : Before(p, o) })
    IN  max(0, min(o.remaining_quantity,
                   ahead + o.remaining_quantity - offset))

\* Notional, at their limit prices, of what `offset` leaves uncovered of
\* the orders `todo` among `orders`.
RECURSIVE UncoveredNotional(_, _, _)
UncoveredNotional(todo, orders, offset) ==
    IF todo = {} THEN 0
    ELSE LET o == CHOOSE o \in todo : TRUE
         IN  Uncovered(orders, o, offset) * o.limit_price
               + UncoveredNotional(todo \ {o}, orders, offset)

\* A step in which submit_limit_order or amend_limit_order returns Ok.
LimitOrderAcceptedStep ==
    /\ AcceptStep
    /\ call'.op # "submit_market_order"

\* C22: after an accepted limit order the order margin reserved is
\* max(excess-buy notional, excess-sell notional) * init_margin_req, where
\* Sells count only beyond the quantity of a Long position and Buys only
\* beyond that of a Short one, the position covering the most aggressive
\* orders first.
C22_PositionAwareOrderMargin ==
    [][ LimitOrderAcceptedStep =>
          LET pos    == exchange'.position
              orders == exchange'.order_margin
              long   == IF pos.kind = "Long" THEN pos.quantity ELSE 0
              short  == IF pos.kind = "Short" THEN pos.quantity ELSE 0
              buys   == UncoveredNotional(OfSide(orders, "Buy"), orders,
                                          short)
              sells  == UncoveredNotional(OfSide(orders, "Sell"), orders,
                                          long)
          IN  /\ exchange'.position = exchange.position
              /\ exchange'.balances.order_margin
                   = mul(max(buys, sells), init_margin_req)
       ]_vars

\* C22 witness: with a Long position a Sell order larger than the position
\* was accepted and margin is reserved for less than its whole quantity.
C22_Witness ==
    /\ Returned
    /\ call.op = "submit_limit_order"
    /\ ret.err = "Ok"
    /\ exchange.position.kind = "Long"
    /\ ret.value[1] \in ActiveOrders
    /\ ret.value[1].side = "Sell"
    /\ ret.value[1].remaining_quantity > exchange.position.quantity
    /\ exchange.balances.order_margin > 0
    /\ exchange.balances.order_margin
         < mul(ret.value[1].remaining_quantity * ret.value[1].limit_price,
               init_margin_req)

\* C23: the number of active limit orders never exceeds
\* max_num_open_orders; a submit_limit_order made when that many are
\* active is not accepted, and a submission or amend that returns
\* MaxActiveOrders has inserted no order.
C23_MaxActiveOrders ==
    /\ [](Cardinality(ActiveOrders) <= max_num_open_orders)
    /\ [][ /\ ( /\ SubmitLimitStep
                /\ Cardinality(exchange.order_margin) >= max_num_open_orders )
             => ( /\ ret'.err # "Ok"
                  /\ exchange'.order_margin = exchange.order_margin )
           /\ ( /\ OrderStep
                /\ ret'.err = "MaxActiveOrders" )
             => ( /\ panicked' = NoPanic
                  /\ Cardinality(exchange.order_margin) = max_num_open_orders
                  /\ exchange'.order_margin = exchange.order_margin )
         ]_vars

\* C23 witness: with max_num_open_orders orders active a further limit
\* order was rejected with MaxActiveOrders.
C23_Witness ==
    /\ Returned
    /\ call.op = "submit_limit_order"
    /\ ret.err = "MaxActiveOrders"
    /\ Cardinality(ActiveOrders) = max_num_open_orders

\* Total quantity filled by a list of fill events.
RECURSIVE FilledTotal(_)
FilledTotal(events) ==
    IF events = << >> THEN 0
    ELSE Head(events).filled_quantity + FilledTotal(Tail(events))

\* The orders active before the step that the trade of the step strictly
\* crosses.
CrossedOrders ==
    { o \in exchange.order_margin : Crosses(call'.market_update, o) }

\* C24 as stated: the trade's quantity is not decremented by the fills of
\* the pass, so that every resting order the trade strictly crosses is
\* filled against the whole quantity q of the trade and the fills of one
\* pass can total more than q.
C24_TradeQuantityNotDecremented ==
    [][ TradeReturnedOk =>
          \A o \in CrossedOrders :
            \E i \in 1..Len(ret'.value) :
              /\ ret'.value[i].order_after_fill.id = o.id
              /\ ret'.value[i].filled_quantity
                   = min(call'.market_update.quantity, o.remaining_quantity)
       ]_vars

\* C24 amended: each fill is taken off the trade's quantity, so the fills
\* of one update_state total the smaller of the trade's quantity q and the
\* remaining quantity of the orders it crosses, never more than q.
C24_FillsWithinTradeQuantity ==
    [][ TradeReturnedOk =>
          /\ FilledTotal(ret'.value) <= call'.market_update.quantity
          /\ FilledTotal(ret'.value)
               = min(call'.market_update.quantity, RemainingOf(CrossedOrders))
       ]_vars

\* C24 witness: the fills of a pass used up the whole quantity of the trade
\* and an order the trade crosses is still resting.
C24_Witness ==
    /\ Returned
    /\ call.op = "update_state"
    /\ call.market_update.kind = "Trade"
    /\ ret.err = "Ok"
    /\ ret.value # << >>
    /\ FilledTotal(ret.value) = call.market_update.quantity
    /\ \E o \in ActiveOrders : Crosses(call.market_update, o)

\* C25: when update_state with a Trade returns Ok, either the fills of the
\* call used up the whole quantity of the trade, or no order still active
\* is strictly crossed by the trade price on the side the trade can fill.
C25_FillCompleteness ==
    [][ TradeReturnedOk =>
          \/ FilledTotal(ret'.value) = call'.market_update.quantity
          \/ \A o \in exchange'.order_margin :
               ~Crosses(call'.market_update, o)
       ]_vars

\* C25 witness: a pass filled the best order, stopped at the next one,
\* which the trade price does not strictly cross, and left part of the
\* trade's quantity unused.
C25_Witness ==
    /\ Returned
    /\ call.op = "update_state"
    /\ call.market_update.kind = "Trade"
    /\ ret.err = "Ok"
    /\ ret.value # << >>
    /\ FilledTotal(ret.value) < call.market_update.quantity
    /\ \E o \in ActiveOrders :
         /\ o.side = ret.value[1].order_after_fill.side
         /\ o.limit_price = call.market_update.price

\* C26: in the list one update_state returns each order id appears at
\* most once, every event but the last is FullyFilled (so at most one is
\* PartiallyFilled), all events are about orders of one side, and there
\* are at most as many events as orders were active before the call, hence
\* at most max_num_open_orders.
C26_ShapeOfOnePass ==
    [][ UpdateStateReturnedOk =>
          LET events == ret'.value
              n      == Len(events)
          IN  /\ \A i, j \in 1..n :
                   events[i].order_after_fill.id
                     = events[j].order_after_fill.id => i = j
              /\ \A i \in 1..(n - 1) : events[i].kind = "FullyFilled"
              /\ Cardinality({ i \in 1..n :
                                 events[i].kind = "PartiallyFilled" }) <= 1
              /\ \A i, j \in 1..n :
                   events[i].order_after_fill.side
                     = events[j].order_after_fill.side
              /\ n <= Cardinality(exchange.order_margin)
              /\ n <= max_num_open_orders
       ]_vars

\* C26 witness: one pass returned as many events as max_num_open_orders,
\* the first FullyFilled and the last PartiallyFilled.
C26_Witness ==
    /\ Returned
    /\ call.op = "update_state"
    /\ ret.err = "Ok"
    /\ Len(ret.value) = max_num_open_orders
    /\ ret.value[1].kind = "FullyFilled"
    /\ ret.value[2].kind = "PartiallyFilled"
    /\ ret.value[2].order_after_fill \in ActiveOrders

\* C27: a pass of check_active_orders ends after at most one round per
\* order active before it: every round but the one that ends the pass
\* fully fills the best order and removes it, so the active orders
\* decrease by one per FullyFilled event; a PartiallyFilled event is the
\* last of the pass, comes with the trade used up, and its order is filled
\* only that once.
C27_PassTerminates ==
    [][ TradeReturnedOk =>
          LET events == ret'.value
              n      == Len(events)
              full   == { i \in 1..n : events[i].kind = "FullyFilled" }
          IN  /\ n <= Cardinality(exchange.order_margin)
              /\ Cardinality(exchange'.order_margin)
                   = Cardinality(exchange.order_margin) - Cardinality(full)
              /\ \A i \in full :
                   events[i].order_after_fill.id
                     \notin Ids(exchange'.order_margin)
              /\ \A i \in (1..n) \ full :
                   /\ i = n
                   /\ FilledTotal(events) = call'.market_update.quantity
                   /\ events[i].order_after_fill \in exchange'.order_margin
                   /\ \A j \in 1..n :
                        events[j].order_after_fill.id
                          = events[i].order_after_fill.id => j = i
       ]_vars

\* C27 witness: a pass of two rounds, the first removing the best order and
\* the second using up the trade on part of the next one, which stays.
C27_Witness ==
    /\ Returned
    /\ call.op = "update_state"
    /\ call.market_update.kind = "Trade"
    /\ ret.err = "Ok"
    /\ Len(ret.value) = 2
    /\ ret.value[1].order_after_fill.id \notin Ids(ActiveOrders)
    /\ ret.value[2].order_after_fill.remaining_quantity > 0
    /\ FilledTotal(ret.value) = call.market_update.quantity
    /\ Cardinality(ActiveOrders) = 1

CancelReturnedOk ==
    /\ calls' = calls + 1
    /\ call'.op = "cancel_limit_order"
    /\ panicked' = NoPanic
    /\ ret'.err = "Ok"

C30_RemainingWithinTotal ==
    \A o \in ActiveOrders :
      /\ 0 < o.remaining_quantity
      /\ o.remaining_quantity <= o.total_quantity

\* C30 witness: an amend of a partially filled order returned Ok and the
\* order it created rests with less remaining than its total quantity.
C30_Witness ==
    /\ Returned
    /\ call.op = "amend_limit_order"
    /\ ret.err = "Ok"
    /\ \E o \in ActiveOrders :
         /\ o.id = last_accepted
         /\ o.limit_price = call.order.limit_price
         /\ o.total_quantity = call.order.total_quantity
         /\ o.remaining_quantity = o.total_quantity - 1

====
